---- MODULE Spec2Model ----
(***************************************************************************)
(* A model of the btc poller (src/src/main.rs): startup computes the first *)
(* fire of a tokio interval aligned on the minute, then every tick fetches *)
(* the buy, sell and spot quotes concurrently (try_join!), builds one      *)
(* PriceData and either submits it to InfluxDB or prints it (dry run).     *)
(*                                                                         *)
(* Time: an instant is [s, n], whole seconds since the start of the minute *)
(* in which the process started, and nanoseconds.  Computation takes no    *)
(* time; time passes while the process is suspended in an await.           *)
(***************************************************************************)
EXTENDS Integers, Sequences, FiniteSets, TLC

\* ------------------------------------------------------------------ bounds
\* Largest --interval drawn by the schedule specification.
MaxInterval == 64
\* The schedule specification follows the fires up to this second.
MaxHorizon == 130
\* Ticks started by the process specification.
MaxTicks == 3
\* Seconds one tick may spend suspended in its requests.
MaxBusy == 2

\* ------------------------------------------------------- program constants
SecondsPerMinute == 60
NanosPerSec == 1000000000
StatusNoContent == 204

\* ------------------------------------------------------------- input sets
\* --interval, the second and nanosecond of Utc::now() in the process
\* specification (the schedule specification draws every interval and second).
MainIntervals == {1, SecondsPerMinute}
MainSeconds == {0, 59}
NanoSamples == {0, 1, NanosPerSec - 1}
Currencies == {"GBP"}
\* Build profiles: overflow checks on (debug) or off (release).
Profiles == {"debug", "release"}

PriceTypes == {"buy", "sell", "spot"}
\* The order in which try_join! polls its futures.
PollOrder == <<"buy", "sell", "spot">>

\* Amount strings of the quote API, as sequences of characters.
AmountStrings == { <<"5">>, <<"7", ".", "5">>, <<"x">> }
NoAmount == <<>>

\* A response to a GET of get_price: a transport failure, or a status and a
\* body which is not JSON ("malformed"), JSON without data.amount ("no_amount")
\* or JSON of the ApiResponse shape ("ok").
QuoteResponses ==
    {[kind |-> "neterr", status |-> 0, shape |-> "none", amount |-> NoAmount]}
    \cup {[kind |-> "http", status |-> 200, shape |-> sh, amount |-> NoAmount] :
            sh \in {"malformed", "no_amount"}}
    \cup {[kind |-> "http", status |-> 200, shape |-> "ok", amount |-> a] :
            a \in AmountStrings}
    \cup {[kind |-> "http", status |-> 500, shape |-> "malformed", amount |-> NoAmount],
          [kind |-> "http", status |-> 500, shape |-> "ok", amount |-> <<"5">>]}
NoResponse == [kind |-> "none", status |-> 0, shape |-> "none", amount |-> NoAmount]

\* A response to the POST of submit_influx.
SinkStatuses == {StatusNoContent, 200, 500}
SinkResponses ==
    {[kind |-> "neterr", status |-> 0]}
    \cup {[kind |-> "http", status |-> st] : st \in SinkStatuses}
NoSinkResponse == [kind |-> "none", status |-> 0]

\* ------------------------------------------------------------------- time
NoInstant == [s |-> -1, n |-> 0]

Before(a, b) == a.s < b.s \/ (a.s = b.s /\ a.n < b.n)
NotAfter(a, b) == ~Before(b, a)
Later(a, b) == IF Before(a, b) THEN b ELSE a

\* Instant + whole seconds.
AddSecs(t, d) == [s |-> t.s + d, n |-> t.n]

\* wait - 1 on u64 (line 106): with overflow checks the subtraction panics
\* at wait = 0, without them it wraps to u64::MAX ("max").
\* wait.saturating_sub(1): 0 at wait = 0.
SubOneSaturating(w, profile) ==
    [panic |-> FALSE, max |-> FALSE, v |-> IF w >= 1 THEN w - 1 ELSE 0]
SubOne(w, profile) ==
    IF w >= 1 THEN [panic |-> FALSE, max |-> FALSE, v |-> w - 1]
    ELSE IF profile = "debug" THEN [panic |-> TRUE, max |-> FALSE, v |-> 0]
    ELSE [panic |-> FALSE, max |-> TRUE, v |-> 0]

\* std::time::Duration::new(secs, nanos): nanoseconds of a second or more
\* carry into the seconds, and the carry out of u64::MAX panics.
DurationNew(secs, nanos) ==
    IF nanos < NanosPerSec
    THEN [panic |-> FALSE, max |-> secs.max, s |-> secs.v, n |-> nanos]
    ELSE IF secs.max
    THEN [panic |-> TRUE, max |-> TRUE, s |-> 0, n |-> 0]
    ELSE [panic |-> FALSE, max |-> FALSE,
          s |-> secs.v + (nanos \div NanosPerSec), n |-> nanos % NanosPerSec]

\* Instant::checked_add: None when the sum cannot be represented.
CheckedAdd(t, dur) ==
    IF dur.max THEN [none |-> TRUE, at |-> NoInstant]
    ELSE [none |-> FALSE,
          at |-> [s |-> t.s + dur.s + ((t.n + dur.n) \div NanosPerSec),
                  n |-> (t.n + dur.n) % NanosPerSec]]

\* Line 104, without the final % 60.
WaitNoWrap(i, seconds) == i - ((seconds + i) % i)
\* Line 104, with the current second left out.
WaitIgnoringSeconds(i, seconds) == (i - (i % i)) % SecondsPerMinute
\* Line 104.
Wait(i, seconds) == (i - ((seconds + i) % i)) % SecondsPerMinute

\* Lines 105-107: the first fire, or the panic that ends startup.
StartInstant(now, w, profile) ==
    LET sub == SubOne(w, profile)
        dur == DurationNew(sub, NanosPerSec - now.n)
        sum == CheckedAdd(now, dur)
    IN  IF sub.panic THEN [ok |-> FALSE, exit |-> "panic_subtract_overflow", at |-> NoInstant]
        ELSE IF dur.panic THEN [ok |-> FALSE, exit |-> "panic_duration_overflow", at |-> NoInstant]
        ELSE IF sum.none THEN [ok |-> FALSE, exit |-> "panic_failed_to_set_start", at |-> NoInstant]
        ELSE [ok |-> TRUE, exit |-> "running", at |-> sum.at]

\* tokio's Interval::tick with the default MissedTickBehavior::Burst: it
\* returns once the deadline has passed, yields the deadline, and the next
\* deadline is one period after this one, however late the tick is.
NextDeadlineDelay(deadline, period, now) == AddSecs(now, period)
\* MissedTickBehavior::Skip: the next multiple of the period after now.
NextDeadlineSkip(deadline, period, now) ==
    AddSecs(deadline, period * (((now.s - deadline.s) \div period) + 1))
NextDeadline(deadline, period, now) == AddSecs(deadline, period)

\* The exit code of the process: main returning Err gives 1, a panic 101.
ExitCode(e) ==
    IF e = "ok" THEN 0
    ELSE IF e \in {"panic_subtract_overflow", "panic_duration_overflow",
                   "panic_failed_to_set_start", "panic_incorrect_status"} THEN 101
    ELSE 1

\* ----------------------------------------------------------- f32 parsing
Digits == <<"0", "1", "2", "3", "4", "5", "6", "7", "8", "9">>
IsDigit(c) == \E i \in 1..10 : Digits[i] = c
DigitVal(c) == (CHOOSE i \in 1..10 : Digits[i] = c) - 1

RECURSIVE DigitsValue(_)
DigitsValue(cs) ==
    IF cs = <<>> THEN 0
    ELSE 10 * DigitsValue(SubSeq(cs, 1, Len(cs) - 1)) + DigitVal(cs[Len(cs)])

\* A decimal m / 10^e without trailing zeros in the fraction.
RECURSIVE Normalise(_)
Normalise(v) ==
    IF v.e > 0 /\ v.m % 10 = 0 THEN Normalise([m |-> v.m \div 10, e |-> v.e - 1])
    ELSE v

NoFloat == [m |-> 0, e |-> 0]

\* str::parse::<f32> on the characters modelled (digits and '.'; any other
\* character is rejected): digits, at most one point, at least one digit.
ParseF32(cs) ==
    LET points == {i \in 1..Len(cs) : cs[i] = "."}
        p == IF points = {} THEN Len(cs) + 1 ELSE CHOOSE i \in points : TRUE
        int == SubSeq(cs, 1, p - 1)
        frac == SubSeq(cs, p + 1, Len(cs))
        all == int \o frac
    IN  IF Cardinality(points) > 1 \/ all = <<>>
           \/ \E i \in 1..Len(all) : ~IsDigit(all[i])
        THEN [ok |-> FALSE, val |-> NoFloat]
        ELSE [ok |-> TRUE, val |-> Normalise([m |-> DigitsValue(all), e |-> Len(frac)])]

\* ----------------------------------------------------------- the state
VARIABLES
    interval,   \* args.interval
    dry_run,    \* args.dry_run
    currency,   \* args.currency
    clock,      \* the current instant
    pc,         \* "start", "tick_wait", "fetching", "submitting", "terminated"
    wait,       \* the local wait of main, -1 before it is computed
    start,      \* the local start of main, the first deadline
    deadline,   \* the next deadline of the tokio interval
    tick,       \* ticks started
    firedAt,    \* the scheduled instant the last interval.tick() returned
    fetch,      \* per price type, the get_price future of the current tick
    sink,       \* the submit_influx request of the current tick
    nFetch,     \* GET requests issued
    nSubmit,    \* POST requests issued
    nPrint,     \* record lines printed
    out,        \* the record the current tick has submitted or printed
    resolvedAt, \* the instant of the latest resolution of a get_price future
    order,      \* the price types of the current tick in the order they resolved
    exit        \* "running", or how the process ended

vars == <<interval, dry_run, currency, clock, pc, wait, start, deadline, tick, firedAt,
          fetch, sink, nFetch, nSubmit, nPrint, out, resolvedAt, order, exit>>

\* ------------------------------------------------------- formatting
RECURSIVE IntChars(_)
IntChars(k) ==
    IF k < 10 THEN <<Digits[k + 1]>>
    ELSE IntChars(k \div 10) \o <<Digits[(k % 10) + 1]>>

RECURSIVE Pow10(_)
Pow10(e) == IF e = 0 THEN 1 ELSE 10 * Pow10(e - 1)

\* The fraction digits of m / 10^e, zero-padded to e places.
RECURSIVE FracChars(_, _)
FracChars(f, e) ==
    IF e = 0 THEN <<>>
    ELSE FracChars(f \div 10, e - 1) \o <<Digits[(f % 10) + 1]>>

\* Display of an f32 (lines 66-68): the shortest decimal that reads back as
\* the value, without exponent and without a fraction when it is integral.
\* The Debug rendering of an f32, which keeps ".0" on an integral value.
FmtF32Debug(v) ==
    IF v.e = 0 THEN IntChars(v.m) \o <<".", "0">>
    ELSE IntChars(v.m \div Pow10(v.e)) \o <<".">> \o FracChars(v.m % Pow10(v.e), v.e)
FmtF32(v) ==
    IF v.e = 0 THEN IntChars(v.m)
    ELSE IntChars(v.m \div Pow10(v.e)) \o <<".">> \o FracChars(v.m % Pow10(v.e), v.e)

NoPriceData ==
    [source |-> "", asset |-> "", currency |-> "", buy |-> NoFloat,
     sell |-> NoFloat, spot |-> NoFloat, timestamp |-> NoInstant]

\* impl Display for PriceData (lines 58-72); timestamp() is whole seconds.
Format(pd) ==
    <<pd.asset, ",source=", pd.source, ",currency=", pd.currency, " buy=">>
    \o FmtF32(pd.buy) \o <<",sell=">> \o FmtF32(pd.sell)
    \o <<",spot=">> \o FmtF32(pd.spot) \o <<" ">> \o IntChars(pd.timestamp.s)

\* ------------------------------------------------------- the requests
\* The URL of get_price (lines 163-166); PriceType displays as its word.
\* The URL with the default currency in place of the configured one.
UrlDefaultCurrency(typ, cur) ==
    <<"https://api.coinbase.com/v2/prices/", typ, "?currency=", "GBP">>
Url(typ, cur) == <<"https://api.coinbase.com/v2/prices/", typ, "?currency=", cur>>

IdleFetch ==
    [state |-> "idle", tick |-> 0, url |-> <<>>, issued |-> NoInstant,
     resp |-> NoResponse]
IdleSink ==
    [state |-> "idle", tick |-> 0, body |-> <<>>, resp |-> NoSinkResponse]
NoOut == [kind |-> "none", tick |-> 0, pd |-> NoPriceData, line |-> <<>>, at |-> NoInstant]

\* get_price (lines 158-170): send fails on a transport error; json() does
\* not look at the status and fails unless the body has the ApiResponse shape.
\* get_price with response.error_for_status() before json().
GetPriceErrorForStatus(resp) ==
    IF resp.kind = "neterr" THEN [ok |-> FALSE, err |-> "err_fetch_send", amount |-> NoAmount]
    ELSE IF resp.status \notin 200..299
    THEN [ok |-> FALSE, err |-> "err_fetch_status", amount |-> NoAmount]
    ELSE IF resp.shape # "ok" THEN [ok |-> FALSE, err |-> "err_fetch_json", amount |-> NoAmount]
    ELSE [ok |-> TRUE, err |-> "", amount |-> resp.amount]
GetPrice(resp) ==
    IF resp.kind = "neterr" THEN [ok |-> FALSE, err |-> "err_fetch_send", amount |-> NoAmount]
    ELSE IF resp.shape # "ok" THEN [ok |-> FALSE, err |-> "err_fetch_json", amount |-> NoAmount]
    ELSE [ok |-> TRUE, err |-> "", amount |-> resp.amount]

Resolved(f) == f.state = "done"
Failed(f) == Resolved(f) /\ ~GetPrice(f.resp).ok

\* A join that waits for all three futures before it looks at their results.
JoinAll(fs) ==
    IF \E t \in PriceTypes : fs[t].state = "pending" THEN "pending"
    ELSE IF \E t \in PriceTypes : Failed(fs[t]) THEN "err"
    ELSE "ready"
\* futures::try_join! (lines 136-140): Err as soon as one future has failed,
\* the tuple once all three have succeeded.
TryJoin(fs) ==
    IF \E t \in PriceTypes : Failed(fs[t]) THEN "err"
    ELSE IF \E t \in PriceTypes : fs[t].state = "pending" THEN "pending"
    ELSE "ready"

\* The error try_join! returns: that of the first failed future it polls.
FirstError(fs) ==
    LET i == CHOOSE j \in 1..3 :
                /\ Failed(fs[PollOrder[j]])
                /\ \A k \in 1..(j - 1) : ~Failed(fs[PollOrder[k]])
    IN  GetPrice(fs[PollOrder[i]].resp).err

\* Returning from main drops the futures still pending.
DropPending(fs) ==
    [t \in PriceTypes |->
        IF fs[t].state = "pending" THEN [fs[t] EXCEPT !.state = "dropped"] ELSE fs[t]]

\* parse::<f32>() of each amount a quote can carry.
ParsedAmount == [a \in AmountStrings \cup {NoAmount} |-> ParseF32(a)]

\* Lines 141-149: the three amounts parsed in order, then the timestamp.
BuildSwapped(fs, cur, now) ==
    LET b == ParseF32(GetPrice(fs["buy"].resp).amount)
        s == ParseF32(GetPrice(fs["sell"].resp).amount)
        p == ParseF32(GetPrice(fs["spot"].resp).amount)
    IN  [ok |-> b.ok /\ s.ok /\ p.ok,
         pd |-> [source |-> "Coinbase", asset |-> "BTC", currency |-> cur,
                 buy |-> s.val, sell |-> b.val, spot |-> p.val, timestamp |-> now]]
\* A build that takes the quotes in the order in which they arrived.
BuildByArrival(fs, cur, now) ==
    LET rest == CHOOSE t \in PriceTypes : \A i \in 1..Len(order) : order[i] # t
        arrival == IF Len(order) = 2 THEN Append(order, rest) ELSE PollOrder
        b == ParseF32(GetPrice(fs[arrival[1]].resp).amount)
        s == ParseF32(GetPrice(fs[arrival[2]].resp).amount)
        p == ParseF32(GetPrice(fs[arrival[3]].resp).amount)
    IN  [ok |-> b.ok /\ s.ok /\ p.ok,
         pd |-> [source |-> "Coinbase", asset |-> "BTC", currency |-> cur,
                 buy |-> b.val, sell |-> s.val, spot |-> p.val, timestamp |-> now]]
\* A build that puts 0.0 where an amount does not parse.
BuildLenient(fs, cur, now) ==
    LET b == ParseF32(GetPrice(fs["buy"].resp).amount)
        s == ParseF32(GetPrice(fs["sell"].resp).amount)
        p == ParseF32(GetPrice(fs["spot"].resp).amount)
    IN  [ok |-> TRUE,
         pd |-> [source |-> "Coinbase", asset |-> "BTC", currency |-> cur,
                 buy |-> b.val, sell |-> s.val, spot |-> p.val, timestamp |-> now]]
Build(fs, cur, now) ==
    LET b == ParsedAmount[GetPrice(fs["buy"].resp).amount]
        s == ParsedAmount[GetPrice(fs["sell"].resp).amount]
        p == ParsedAmount[GetPrice(fs["spot"].resp).amount]
    IN  [ok |-> b.ok /\ s.ok /\ p.ok,
         pd |-> [source |-> "Coinbase", asset |-> "BTC", currency |-> cur,
                 buy |-> b.val, sell |-> s.val, spot |-> p.val, timestamp |-> now]]

\* Line 150: the record goes to the sink unless --dry-run is given.
ToSinkInverted(dry) == dry
ToSink(dry) == ~dry

\* Line 186: the only status submit_influx accepts.
StatusOk2xx(st) == st \in 200..299
StatusOk(st) == st = StatusNoContent

\* Where a failed tick leaves the process: `?` returns the error from main.
OnErrorRetry(e) == [pc |-> "tick_wait", exit |-> "running"]
OnError(e) == [pc |-> "terminated", exit |-> e]

\* Where a completed tick leaves the process: the loop of line 134 has no
\* break, so the next interval.tick() is awaited.
AfterTickBreak == [pc |-> "terminated", exit |-> "ok"]
\* A one-shot sleep in place of the interval: the loop never wakes again.
AfterTickOneShot == [pc |-> "asleep", exit |-> "running"]
AfterTick == [pc |-> "tick_wait", exit |-> "running"]

\* interval.tick().await returns only to the loop, between two tick bodies.
CanTickOverlapping == pc \in {"tick_wait", "fetching", "submitting"}
CanTick == pc = "tick_wait"

\* ------------------------------------------------------- the actions
Init ==
    /\ interval \in MainIntervals
    /\ dry_run \in BOOLEAN
    /\ currency \in Currencies
    /\ clock \in [s : MainSeconds, n : NanoSamples]
    /\ pc = "start"
    /\ wait = -1
    /\ start = NoInstant
    /\ deadline = NoInstant
    /\ tick = 0
    /\ firedAt = NoInstant
    /\ fetch = [t \in PriceTypes |-> IdleFetch]
    /\ sink = IdleSink
    /\ nFetch = 0
    /\ nSubmit = 0
    /\ nPrint = 0
    /\ out = NoOut
    /\ resolvedAt = NoInstant
    /\ order = <<>>
    /\ exit = "running"

\* Lines 101-108: now, wait, start and the interval.
Startup ==
    /\ pc = "start"
    /\ \E profile \in Profiles :
        LET w == Wait(interval, clock.s)
            st == StartInstant(clock, w, profile)
        IN  /\ wait' = w
            /\ start' = st.at
            /\ deadline' = st.at
            /\ pc' = IF st.ok THEN "tick_wait" ELSE "terminated"
            /\ exit' = st.exit
    /\ UNCHANGED <<interval, dry_run, currency, clock, tick, firedAt, fetch, sink,
                   nFetch, nSubmit, nPrint, out, resolvedAt, order>>

\* Lines 135-140: the interval fires and the three get_price futures send
\* their requests.
TickFires ==
    /\ CanTick
    /\ tick < MaxTicks
    /\ LET now == Later(clock, deadline)
       IN  /\ clock' = now
           /\ firedAt' = deadline
           /\ deadline' = NextDeadline(deadline, interval, now)
           /\ fetch' = [t \in PriceTypes |->
                           [state |-> "pending", tick |-> tick + 1,
                            url |-> Url(t, currency), issued |-> now,
                            resp |-> NoResponse]]
    /\ tick' = tick + 1
    /\ nFetch' = nFetch + 3
    /\ sink' = IdleSink
    /\ out' = NoOut
    /\ resolvedAt' = NoInstant
    /\ order' = <<>>
    /\ pc' = "fetching"
    /\ UNCHANGED <<interval, dry_run, currency, wait, start, nSubmit, nPrint, exit>>

\* What follows the resolution of a future of try_join! (lines 136-154).
AfterResolve(fs, now) ==
    LET j == TryJoin(fs)
        b == Build(fs, currency, now)
    IN  IF j = "pending"
        THEN /\ fetch' = fs
             /\ UNCHANGED <<pc, exit, sink, nSubmit, nPrint, out>>
        ELSE IF j = "err"
        THEN /\ fetch' = DropPending(fs)
             /\ pc' = OnError(FirstError(fs)).pc
             /\ exit' = OnError(FirstError(fs)).exit
             /\ UNCHANGED <<sink, nSubmit, nPrint, out>>
        ELSE IF ~b.ok
        THEN /\ fetch' = fs
             /\ pc' = OnError("err_parse_float").pc
             /\ exit' = OnError("err_parse_float").exit
             /\ UNCHANGED <<sink, nSubmit, nPrint, out>>
        ELSE IF ToSink(dry_run)
        THEN /\ fetch' = fs
             /\ sink' = [state |-> "pending", tick |-> tick,
                         body |-> Format(b.pd), resp |-> NoSinkResponse]
             /\ nSubmit' = nSubmit + 1
             /\ out' = [kind |-> "submit", tick |-> tick, pd |-> b.pd,
                        line |-> Format(b.pd), at |-> now]
             /\ pc' = "submitting"
             /\ UNCHANGED <<exit, nPrint>>
        ELSE /\ fetch' = fs
             /\ nPrint' = nPrint + 1
             /\ out' = [kind |-> "print", tick |-> tick, pd |-> b.pd,
                        line |-> Format(b.pd), at |-> now]
             /\ pc' = AfterTick.pc
             /\ exit' = AfterTick.exit
             /\ UNCHANGED <<sink, nSubmit>>

\* One get_price future resolves after d more seconds (lines 167-169).
FetchResolves(typ, resp, d) ==
    /\ pc = "fetching"
    /\ fetch[typ].state = "pending"
    /\ (clock.s + d) - fetch[typ].issued.s <= MaxBusy
    /\ LET now == AddSecs(clock, d)
           fs == [fetch EXCEPT ![typ] = [@ EXCEPT !.state = "done", !.resp = resp]]
       IN  /\ clock' = now
           /\ resolvedAt' = now
           /\ order' = Append(order, typ)
           /\ AfterResolve(fs, now)
    /\ UNCHANGED <<interval, dry_run, currency, wait, start, deadline, tick, firedAt,
                   nFetch>>

\* The POST of submit_influx resolves after d more seconds (lines 181-190).
SubmitResolves(resp, d) ==
    /\ pc = "submitting"
    /\ sink.state = "pending"
    /\ (clock.s + d) - fetch["buy"].issued.s <= MaxBusy
    /\ clock' = AddSecs(clock, d)
    /\ sink' = [sink EXCEPT !.state = "done", !.resp = resp]
    /\ LET after == IF resp.kind = "neterr" THEN OnError("err_submit_send")
                    ELSE IF ~StatusOk(resp.status) THEN OnError("panic_incorrect_status")
                    ELSE AfterTick
       IN  pc' = after.pc /\ exit' = after.exit
    /\ UNCHANGED <<interval, dry_run, currency, wait, start, deadline, tick, firedAt,
                   fetch, nFetch, nSubmit, nPrint, out, resolvedAt, order>>

Next ==
    \/ Startup
    \/ TickFires
    \/ \E typ \in PriceTypes, resp \in QuoteResponses, d \in 0..MaxBusy :
          FetchResolves(typ, resp, d)
    \/ \E resp \in SinkResponses, d \in 0..MaxBusy : SubmitResolves(resp, d)

Spec == Init /\ [][Next]_vars

\* --------------------------------------- the schedule on its own
\* Every interval and every second of the minute; the tick body is left out.
SchedInit ==
    /\ interval \in 1..MaxInterval
    /\ dry_run = TRUE
    /\ currency = "GBP"
    /\ clock \in [s : 0..(SecondsPerMinute - 1), n : NanoSamples]
    /\ pc = "start"
    /\ wait = -1
    /\ start = NoInstant
    /\ deadline = NoInstant
    /\ tick = 0
    /\ firedAt = NoInstant
    /\ fetch = [t \in PriceTypes |-> IdleFetch]
    /\ sink = IdleSink
    /\ nFetch = 0
    /\ nSubmit = 0
    /\ nPrint = 0
    /\ out = NoOut
    /\ resolvedAt = NoInstant
    /\ order = <<>>
    /\ exit = "running"

\* interval.tick().await (line 135) alone.
IntervalTick ==
    /\ CanTick
    /\ deadline.s <= MaxHorizon
    /\ clock' = Later(clock, deadline)
    /\ firedAt' = deadline
    /\ deadline' = NextDeadline(deadline, interval, Later(clock, deadline))
    /\ tick' = tick + 1
    /\ UNCHANGED <<interval, dry_run, currency, pc, wait, start, fetch, sink, nFetch,
                   nSubmit, nPrint, out, resolvedAt, order, exit>>

SchedNext == Startup \/ IntervalTick

SpecSched == SchedInit /\ [][SchedNext]_vars

\* --------------------------------------- the formatter on its own
\* Amounts of at most seven significant digits that an f32 holds exactly or
\* to which the shortest-digits Display reads back; among them are the
\* amounts of the rendering example.
FmtAmountStrings ==
    { <<"5", "0", "0", "0", "0", ".", "5">>,
      <<"4", "9", "9", "5", "0", ".", "2", "5">>,
      <<"5", "0", "0", "1", "0", ".", "0">>,
      <<"5">>,
      <<"0", ".", "5">> }
FmtTimestamps == {[s |-> 1700000000, n |-> 0], [s |-> 59, n |-> NanosPerSec - 1]}
FmtCurrencies == {"GBP", "USD"}
FmtRecords ==
    {[source |-> "Coinbase", asset |-> "BTC", currency |-> c,
      buy |-> ParseF32(b).val, sell |-> ParseF32(l).val, spot |-> ParseF32(p).val,
      timestamp |-> ts] :
        c \in FmtCurrencies, b \in FmtAmountStrings, l \in FmtAmountStrings,
        p \in FmtAmountStrings, ts \in FmtTimestamps}

\* A PriceData about to be printed.
FmtInit ==
    /\ interval = 1
    /\ dry_run = TRUE
    /\ currency \in FmtCurrencies
    /\ clock = [s |-> 0, n |-> 0]
    /\ pc = "format"
    /\ wait = -1
    /\ start = NoInstant
    /\ deadline = NoInstant
    /\ tick = 0
    /\ firedAt = NoInstant
    /\ fetch = [t \in PriceTypes |-> IdleFetch]
    /\ sink = IdleSink
    /\ nFetch = 0
    /\ nSubmit = 0
    /\ nPrint = 0
    /\ out \in {[kind |-> "none", tick |-> 0, pd |-> r, line |-> <<>>, at |-> NoInstant] :
                   r \in {x \in FmtRecords : x.currency = currency}}
    /\ resolvedAt = NoInstant
    /\ order = <<>>
    /\ exit = "running"

\* println!("{}", pd) (line 153): the record is rendered by its Display.
FormatRecord ==
    /\ pc = "format"
    /\ out' = [out EXCEPT !.kind = "print", !.line = Format(out.pd)]
    /\ nPrint' = nPrint + 1
    /\ pc' = "formatted"
    /\ UNCHANGED <<interval, dry_run, currency, clock, wait, start, deadline, tick,
                   firedAt, fetch, sink, nFetch, nSubmit, resolvedAt, order, exit>>

SpecFmt == FmtInit /\ [][FormatRecord]_vars

\* --------------------------------------- the process, per currency
\* The process specification with --currency given or left at its default,
\* from one start from which startup succeeds.
AllCurrencies == {"GBP", "USD"}
CurInit ==
    /\ interval = 1
    /\ dry_run \in BOOLEAN
    /\ currency \in AllCurrencies
    /\ clock = [s |-> 59, n |-> 1]
    /\ pc = "start"
    /\ wait = -1
    /\ start = NoInstant
    /\ deadline = NoInstant
    /\ tick = 0
    /\ firedAt = NoInstant
    /\ fetch = [t \in PriceTypes |-> IdleFetch]
    /\ sink = IdleSink
    /\ nFetch = 0
    /\ nSubmit = 0
    /\ nPrint = 0
    /\ out = NoOut
    /\ resolvedAt = NoInstant
    /\ order = <<>>
    /\ exit = "running"

SpecCurrencies == CurInit /\ [][Next]_vars

\* --------------------------------------- the process without errors
\* The executions in which every request resolves and none fails: every
\* get_price resolves to a body whose amount parses, every POST to 204.
\* The runtime polls a ready future and fires a due timer, hence the weak
\* fairness of each step.
OkQuoteResponses == {r \in QuoteResponses : GetPrice(r).ok /\ ParseF32(r.amount).ok}
OkSinkResponses == {r \in SinkResponses : r.kind = "http" /\ StatusOk(r.status)}
FetchOk ==
    \E typ \in PriceTypes, resp \in OkQuoteResponses, d \in 0..MaxBusy :
        FetchResolves(typ, resp, d)
SubmitOk == \E resp \in OkSinkResponses, d \in 0..MaxBusy : SubmitResolves(resp, d)
LiveNext ==
    \/ Startup
    \/ TickFires
    \/ FetchOk
    \/ SubmitOk
\* One start of each kind: at second 0 an interval of 1 starts up and an
\* interval of 60 does not.
LiveInit ==
    /\ interval \in MainIntervals
    /\ dry_run \in BOOLEAN
    /\ currency \in Currencies
    /\ clock = [s |-> 0, n |-> 1]
    /\ pc = "start"
    /\ wait = -1
    /\ start = NoInstant
    /\ deadline = NoInstant
    /\ tick = 0
    /\ firedAt = NoInstant
    /\ fetch = [t \in PriceTypes |-> IdleFetch]
    /\ sink = IdleSink
    /\ nFetch = 0
    /\ nSubmit = 0
    /\ nPrint = 0
    /\ out = NoOut
    /\ resolvedAt = NoInstant
    /\ order = <<>>
    /\ exit = "running"
SpecLive ==
    /\ LiveInit
    /\ [][LiveNext]_vars
    /\ WF_vars(Startup)
    /\ WF_vars(TickFires)
    /\ WF_vars(FetchOk)
    /\ WF_vars(SubmitOk)

\* ------------------------------------------------------- the claims
AllResolvedOk == \A t \in PriceTypes : Resolved(fetch[t]) /\ GetPrice(fetch[t].resp).ok
Numeric(t) == ParseF32(GetPrice(fetch[t].resp).amount).ok
\* The tick has all three quotes, each with a numeric amount.
Aggregated == AllResolvedOk /\ \A t \in PriceTypes : Numeric(t)
\* A quote fetch of the tick has failed: transport, JSON or non-numeric amount.
FetchFailed(t) == Resolved(fetch[t]) /\ (~GetPrice(fetch[t].resp).ok \/ ~Numeric(t))
NoOutstanding == (\A t \in PriceTypes : fetch[t].state # "pending") /\ sink.state # "pending"
SinkAccepted == sink.resp.kind = "http" /\ sink.resp.status = 204
StartupFailed == pc # "start" /\ deadline = NoInstant
\* An error has happened: at startup, in a fetch, in the parse, in the submit.
ErrorSeen ==
    \/ StartupFailed
    \/ \E t \in PriceTypes : Failed(fetch[t])
    \/ (AllResolvedOk /\ ~Aggregated)
    \/ (sink.state = "done" /\ ~SinkAccepted)
FetchErrors == {"err_fetch_send", "err_fetch_json", "err_parse_float"}

\* C1: when a quote fetch of the tick has failed (transport error, malformed
\* JSON, non-numeric amount) the tick produces no record: nothing is submitted
\* or printed for it, whatever the other two fetches returned, the tick never
\* reaches the submit or the next wait, and it ends with a fetch error.
C1_AllOrNothing ==
    (\E t \in PriceTypes : FetchFailed(t)) =>
        /\ out = NoOut
        /\ sink = IdleSink
        /\ nSubmit + nPrint = tick - 1
        /\ pc \in {"fetching", "terminated"}
        /\ (pc = "terminated" => exit \in FetchErrors)
        /\ ((\E t \in PriceTypes : Failed(fetch[t])) => pc = "terminated")
        /\ (NoOutstanding => pc = "terminated")
C1_Witness ==
    /\ pc = "terminated"
    /\ exit = "err_fetch_json"
    /\ Failed(fetch["sell"])
    /\ \A t \in {"buy", "spot"} :
          Resolved(fetch[t]) /\ GetPrice(fetch[t].resp).ok /\ Numeric(t)
    /\ nSubmit + nPrint = 0

\* C2: ticks are sequential: a tick starts only from the wait of the loop,
\* with no fetch and no submit outstanding, every outstanding request belongs
\* to the current tick, and a tick that starts late starts no earlier than
\* the previous tick's last resolution.
C2_Sequential ==
    /\ [](/\ \A t \in PriceTypes : fetch[t].state = "pending" => fetch[t].tick = tick
          /\ sink.state = "pending" => sink.tick = tick
          /\ nFetch = 3 * tick)
    /\ [][tick' # tick =>
            /\ tick' = tick + 1
            /\ pc = "tick_wait"
            /\ NoOutstanding
            /\ NotAfter(clock, clock')
            /\ \A t \in PriceTypes : fetch'[t].state = "pending" /\ fetch'[t].tick = tick']_vars
C2_Witness ==
    /\ tick = 2
    /\ pc = "fetching"
    /\ Before(firedAt, clock)

\* C3: the submit succeeds exactly on status 204: then the process waits for
\* the next tick and nothing but the request's own state has changed; on any
\* other status, and on a transport error, the process terminates and no
\* tick fires any more.
C3_SubmitStatus ==
    /\ [][(sink.state = "pending" /\ sink'.state = "done") =>
            IF sink'.resp.kind = "http" /\ sink'.resp.status = 204
            THEN /\ pc' = "tick_wait"
                 /\ exit' = "running"
                 /\ UNCHANGED <<fetch, nFetch, nSubmit, nPrint, out, tick, deadline>>
            ELSE /\ pc' = "terminated"
                 /\ exit' \in {"panic_incorrect_status", "err_submit_send"}]_vars
    /\ [][(sink.state = "done" /\ ~SinkAccepted) => UNCHANGED <<tick, nFetch, nSubmit>>]_vars
C3_Witness ==
    /\ sink.state = "done"
    /\ SinkAccepted
    /\ pc = "tick_wait"
    /\ exit = "running"

\* C4: with --dry-run no POST is ever sent and every aggregated record is
\* printed; without it every aggregated record is submitted and none printed.
C4_DryRun ==
    /\ dry_run => (nSubmit = 0 /\ sink = IdleSink /\ out.kind \in {"none", "print"})
    /\ ~dry_run => (nPrint = 0 /\ out.kind \in {"none", "submit"})
    /\ Aggregated =>
          /\ out.kind = (IF dry_run THEN "print" ELSE "submit")
          /\ (IF dry_run THEN nPrint ELSE nSubmit) = tick
          /\ out.line = Format(out.pd)
          /\ (~dry_run => sink.body = out.line)
C4_Witness ==
    /\ dry_run
    /\ nPrint = 2
    /\ out.kind = "print"

\* C5: a tick whose three fetches succeeded with numeric amounts has produced
\* exactly one record, of this tick, whose buy, sell and spot are the parsed
\* amounts of this tick's buy, sell and spot fetches, and whose timestamp was
\* taken after the last of them resolved and not after the record was
\* submitted or printed.
C5_Record ==
    Aggregated =>
        /\ out.kind # "none"
        /\ out.tick = tick
        /\ nSubmit + nPrint = tick
        /\ \A t \in PriceTypes : fetch[t].tick = tick
        /\ out.pd.buy = ParseF32(fetch["buy"].resp.amount).val
        /\ out.pd.sell = ParseF32(fetch["sell"].resp.amount).val
        /\ out.pd.spot = ParseF32(fetch["spot"].resp.amount).val
        /\ out.pd.source = "Coinbase" /\ out.pd.asset = "BTC" /\ out.pd.currency = currency
        /\ \A t \in PriceTypes : NotAfter(fetch[t].issued, out.pd.timestamp)
        /\ NotAfter(resolvedAt, out.pd.timestamp)
        /\ NotAfter(out.pd.timestamp, out.at)
C5_Witness ==
    /\ tick = 2
    /\ Aggregated
    /\ out.pd.buy # out.pd.sell
    /\ out.pd.sell # out.pd.spot
    /\ Before(fetch["buy"].issued, out.pd.timestamp)

\* C6: the process is Running or Terminated; every error (startup, fetch,
\* parse, submit transport, non-204) leaves it Terminated at once, and once
\* Terminated nothing is issued any more: no GET, no POST, no tick, and a
\* failed request is not sent again (three GETs and at most one POST a tick).
C6_Terminated ==
    /\ [](/\ ErrorSeen => pc = "terminated"
          /\ pc = "terminated" <=> exit # "running"
          /\ nFetch = 3 * tick
          /\ nSubmit <= tick)
    /\ [][pc = "terminated" => UNCHANGED vars]_vars
C6_Witness ==
    /\ pc = "terminated"
    /\ exit = "err_submit_send"
    /\ tick = 2

\* C7 as stated: for every interval in [1,60] every fire lands on a second of
\* the minute that is a multiple of the interval.
C7_AllIntervals ==
    (interval \in 1..60 /\ firedAt # NoInstant) =>
        (firedAt.n = 0 /\ (firedAt.s % SecondsPerMinute) % interval = 0)
\* C7, amended: for every interval in [1,60] that divides 60, the first fire
\* and every later fire (and the next deadline) land on a whole second of the
\* minute that is a multiple of the interval, one period apart.
C7_Aligned ==
    (interval \in 1..60 /\ SecondsPerMinute % interval = 0) =>
        /\ firedAt # NoInstant =>
              /\ firedAt.n = 0
              /\ (firedAt.s % SecondsPerMinute) % interval = 0
              /\ deadline = AddSecs(firedAt, interval)
        /\ (pc = "tick_wait" /\ tick = 0) =>
              /\ deadline.n = 0
              /\ (deadline.s % SecondsPerMinute) % interval = 0
              /\ Before(clock, deadline)
C7_Witness ==
    /\ interval = 30
    /\ firedAt = [s |-> 90, n |-> 0]
    /\ tick = 2

\* C8: for every interval in [1,60] and every second of the minute the wait
\* of line 104 is at least 0 and less than 60.
C8_WaitRange ==
    (pc # "start" /\ interval \in 1..60) =>
        (0 <= wait /\ wait < 60)
C8_Witness ==
    /\ pc = "tick_wait"
    /\ interval = 60
    /\ wait = 59

\* C9: the process never ends with exit status 0: every Terminated state was
\* entered through an error, with a non-zero exit code.
C9_NoCleanExit ==
    pc = "terminated" =>
        /\ exit # "ok"
        /\ ExitCode(exit) # 0
        /\ ErrorSeen
C9_Witness ==
    /\ pc = "terminated"
    /\ exit = "err_parse_float"
    /\ ExitCode(exit) = 1

\* C10 as stated: a tick does not end, with a record or with an error, before
\* all three fetches have resolved.
C10_AllResolve ==
    (tick >= 1 /\ pc # "fetching") => \A t \in PriceTypes : Resolved(fetch[t])
\* C10, amended: a tick ends with a record only after all three fetches have
\* resolved with success; a failed fetch ends the tick at once, and the
\* fetches still pending then are dropped without being awaited.
C10_JoinOrFirstError ==
    /\ (out.kind # "none" \/ pc \in {"submitting"} \/ (pc = "tick_wait" /\ tick >= 1))
          => AllResolvedOk
    /\ (\E t \in PriceTypes : Failed(fetch[t])) =>
          /\ pc = "terminated"
          /\ Cardinality({t \in PriceTypes : Failed(fetch[t])}) = 1
          /\ \A t \in PriceTypes : fetch[t].state \in {"done", "dropped"}
    /\ (\E t \in PriceTypes : fetch[t].state = "dropped") =>
          (pc = "terminated" /\ exit \in {"err_fetch_send", "err_fetch_json"})
    /\ pc = "fetching" <=> (\E t \in PriceTypes : fetch[t].state = "pending")
C10_Witness ==
    /\ pc = "terminated"
    /\ Failed(fetch["buy"])
    /\ fetch["sell"].state = "dropped"
    /\ fetch["spot"].state = "dropped"

\* C11: the schedule is fixed-period: the k-th tick is the one scheduled at
\* start + k * interval (k from 0), it does not start before that instant,
\* the next deadline is always the next multiple, so no fire is skipped and
\* the schedule keeps its phase however long earlier ticks took.
C11_FixedPeriod ==
    /\ (pc # "start" /\ start # NoInstant) => deadline = AddSecs(start, tick * interval)
    /\ tick >= 1 =>
          /\ firedAt = AddSecs(start, (tick - 1) * interval)
          /\ \A t \in PriceTypes : NotAfter(firedAt, fetch[t].issued)
          /\ NotAfter(firedAt, clock)
C11_Witness ==
    /\ tick = 3
    /\ interval = 1
    /\ pc = "fetching"
    /\ Before(firedAt, fetch["buy"].issued)

\* C15 as stated: a tick that overran is followed by late ticks that are not
\* fired back-to-back: two consecutive ticks start at least one interval apart.
C15_NoBurst ==
    [][(tick' = tick + 1 /\ tick >= 1) =>
          clock'.s - fetch["buy"].issued.s >= interval]_vars
\* C15, amended: after a tick that overran no scheduled fire is dropped and
\* the next tick runs late, but the schedule is caught up: a tick whose
\* scheduled instant has passed starts at once when the previous tick ends
\* (a burst), and only a tick whose instant is still ahead waits for it.
C15_LateThenBurst ==
    [][tick' = tick + 1 =>
          /\ firedAt' = deadline
          /\ deadline' = AddSecs(deadline, interval)
          /\ clock' = (IF Before(clock, deadline) THEN deadline ELSE clock)
          /\ \A t \in PriceTypes : fetch'[t].issued = clock']_vars
C15_Witness ==
    /\ tick = 2
    /\ pc = "tick_wait"
    /\ Before(firedAt, fetch["buy"].issued)
    /\ NotAfter(deadline, clock)

StartupPanics ==
    {"panic_subtract_overflow", "panic_duration_overflow", "panic_failed_to_set_start"}

\* C12: when the first fire cannot be computed (wait = 0: the subtraction
\* underflows, or wraps so that Duration::new overflows or checked_add gives
\* None) startup panics before the first tick: the process is Terminated and
\* has issued no GET and no POST; no other startup ends in these panics.
C12_StartupFatal ==
    /\ (pc # "start" /\ wait = 0) =>
          /\ pc = "terminated"
          /\ exit \in StartupPanics
          /\ start = NoInstant
          /\ tick = 0 /\ nFetch = 0 /\ nSubmit = 0 /\ nPrint = 0
    /\ exit \in StartupPanics => (wait = 0 /\ tick = 0 /\ nFetch = 0 /\ nSubmit = 0)
    /\ exit = "panic_duration_overflow" => clock.n = 0
    /\ exit = "panic_failed_to_set_start" => clock.n > 0
C12_Witness ==
    /\ pc = "terminated"
    /\ exit = "panic_failed_to_set_start"
    /\ interval = 60
    /\ nFetch = 0

\* C14: for every interval in [1,60], every second and every nanosecond the
\* delay of (wait - 1) s + (1000000000 - nanos) ns is computable (wait >= 1),
\* is more than 0 and at most 60 seconds, and startup reaches the tick loop.
C14_DelayComputable ==
    (pc # "start" /\ tick = 0 /\ interval \in 1..60) =>
        /\ wait >= 1
        /\ pc = "tick_wait"
        /\ Before(clock, start)
        /\ NotAfter(start, AddSecs(clock, 60))

\* C17: for every interval above 60 and every second startup computes a
\* first fire, with a wait of 0..59, and reaches the tick loop.
C17_LargeIntervals ==
    (pc # "start" /\ interval > 60) =>
        /\ wait \in 0..59
        /\ pc = "tick_wait"
        /\ start # NoInstant

\* The place of a token in a line, and the characters between two places.
TokenAt(line, tok) == CHOOSE i \in 1..Len(line) : line[i] = tok
Segment(line, i, j) == SubSeq(line, i + 1, j - 1)
ExampleRecord ==
    [source |-> "Coinbase", asset |-> "BTC", currency |-> "GBP",
     buy |-> [m |-> 500005, e |-> 1], sell |-> [m |-> 4995025, e |-> 2],
     spot |-> [m |-> 50010, e |-> 0], timestamp |-> [s |-> 1700000000, n |-> 0]]
ExampleLine ==
    <<"BTC", ",source=", "Coinbase", ",currency=", "GBP",
      " buy=", "5", "0", "0", "0", "0", ".", "5",
      ",sell=", "4", "9", "9", "5", "0", ".", "2", "5",
      ",spot=", "5", "0", "0", "1", "0",
      " ", "1", "7", "0", "0", "0", "0", "0", "0", "0", "0">>

\* C13: a rendered PriceData is one line, asset, source and currency first,
\* then buy, sell and spot in this order, each the decimal of its own amount
\* (it reads back as that amount), then the whole seconds of the timestamp;
\* the record of the example renders exactly as the example line.
C13_FormatLine ==
    pc = "formatted" =>
        LET l == out.line
            b == TokenAt(l, " buy=")
            s == TokenAt(l, ",sell=")
            p == TokenAt(l, ",spot=")
            t == TokenAt(l, " ")
        IN  /\ SubSeq(l, 1, 6) = <<out.pd.asset, ",source=", out.pd.source,
                                   ",currency=", out.pd.currency, " buy=">>
            /\ b = 6 /\ b < s /\ s < p /\ p < t /\ t < Len(l)
            /\ ParseF32(Segment(l, b, s)) = [ok |-> TRUE, val |-> out.pd.buy]
            /\ ParseF32(Segment(l, s, p)) = [ok |-> TRUE, val |-> out.pd.sell]
            /\ ParseF32(Segment(l, p, t)) = [ok |-> TRUE, val |-> out.pd.spot]
            /\ DigitsValue(Segment(l, t, Len(l) + 1)) = out.pd.timestamp.s
            /\ (out.pd = ExampleRecord => l = ExampleLine)
            /\ (out.pd.spot.e = 0 => \A i \in p..t : l[i] # ".")
C13_Witness ==
    /\ pc = "formatted"
    /\ out.pd = ExampleRecord
    /\ out.line = ExampleLine

\* C16 as stated: a response with a non-2xx status never yields a quote.
C16_NonSuccessFails ==
    \A t \in PriceTypes :
        (Resolved(fetch[t]) /\ fetch[t].resp.kind = "http"
            /\ fetch[t].resp.status \notin 200..299) => Failed(fetch[t])
\* C16, amended: a quote fetch fails on a transport failure and on a body
\* that is not JSON with data.amount, and on nothing else: the status is not
\* looked at, so a non-2xx response fails only through its body, and one with
\* a well-formed body yields a quote that goes into the record.
C16_StatusIgnored ==
    \A t \in PriceTypes :
        Resolved(fetch[t]) =>
            /\ fetch[t].resp.kind = "neterr" =>
                  (Failed(fetch[t]) /\ pc = "terminated" /\ exit = "err_fetch_send")
            /\ (fetch[t].resp.kind = "http" /\ fetch[t].resp.shape # "ok") =>
                  (Failed(fetch[t]) /\ pc = "terminated" /\ exit = "err_fetch_json")
            /\ (fetch[t].resp.kind = "http" /\ fetch[t].resp.shape = "ok") =>
                  /\ ~Failed(fetch[t])
                  /\ GetPrice(fetch[t].resp).amount = fetch[t].resp.amount
            /\ (Aggregated /\ fetch[t].resp.status \notin 200..299) =>
                  /\ out.kind # "none"
                  /\ (t = "buy" => out.pd.buy = ParseF32(fetch[t].resp.amount).val)
                  /\ (t = "sell" => out.pd.sell = ParseF32(fetch[t].resp.amount).val)
                  /\ (t = "spot" => out.pd.spot = ParseF32(fetch[t].resp.amount).val)
C16_Witness ==
    /\ Aggregated
    /\ fetch["buy"].resp.status = 500
    /\ fetch["sell"].resp.status = 200
    /\ out.kind # "none"

\* The record the three responses of the tick determine, whatever their order.
QuoteOf(t) == ParseF32(fetch[t].resp.amount).val
\* C18: the outcome of a tick is a function of its three responses and not of
\* the order in which they arrived: in every order of completion a record is
\* emitted exactly when all three responses are quotes with numeric amounts,
\* and its buy, sell and spot are those of the buy, sell and spot fetch.
C18_OrderIndependent ==
    /\ {order[i] : i \in 1..Len(order)} = {t \in PriceTypes : Resolved(fetch[t])}
    /\ Len(order) = Cardinality({t \in PriceTypes : Resolved(fetch[t])})
    /\ (tick >= 1 /\ pc # "fetching") => (out.kind # "none" <=> Aggregated)
    /\ pc = "fetching" => out.kind = "none"
    /\ out.kind # "none" =>
          /\ Len(order) = 3
          /\ out.pd.buy = QuoteOf("buy")
          /\ out.pd.sell = QuoteOf("sell")
          /\ out.pd.spot = QuoteOf("spot")
C18_Witness ==
    /\ order = <<"spot", "sell", "buy">>
    /\ out.kind # "none"
    /\ QuoteOf("buy") # QuoteOf("spot")

Emitted == nSubmit + nPrint
\* C19: every tick launches exactly three GETs, one per price type, each for
\* the configured currency, and emits at most one record; the record of a
\* tick is emitted only when its three fetches have succeeded and before the
\* next tick launches its fetches, so records never outnumber ticks.
C19_ThreePerTick ==
    /\ [](/\ nFetch = 3 * tick
          /\ Emitted <= tick
          /\ tick >= 1 =>
                \A t \in PriceTypes :
                    /\ fetch[t].tick = tick
                    /\ fetch[t].state # "idle"
                    /\ fetch[t].url = <<"https://api.coinbase.com/v2/prices/", t,
                                        "?currency=", currency>>
          /\ out.kind # "none" =>
                (out.tick = tick /\ AllResolvedOk /\ out.pd.currency = currency))
    /\ [][tick' # tick => (Emitted' = Emitted /\ nFetch' = nFetch + 3)]_vars
    /\ [][Emitted' # Emitted =>
            /\ Emitted' = Emitted + 1
            /\ tick' = tick
            /\ out.kind = "none"
            /\ out'.tick = tick
            /\ \A t \in PriceTypes : Resolved(fetch'[t]) /\ GetPrice(fetch'[t].resp).ok]_vars
C19_Witness ==
    /\ tick = 3
    /\ Emitted = 3
    /\ currency = "USD"

StartupSucceeded == pc # "start" /\ ~StartupFailed
RecordOf(k) ==
    /\ tick = k
    /\ pc = "tick_wait"
    /\ out.tick = k
    /\ out.kind = (IF dry_run THEN "print" ELSE "submit")
    /\ dry_run \/ SinkAccepted
\* C20: when startup succeeds, every request resolves and none fails, the
\* process is Running for ever and goes on ticking (as far as the tick
\* counter is followed), one tick at a time, and the record of every started
\* tick, printed in a dry run and otherwise submitted and accepted, is there
\* when the next tick starts.
C20_Liveness ==
    /\ [](StartupSucceeded =>
            (exit = "running" /\ pc \in {"tick_wait", "fetching", "submitting"}))
    /\ StartupSucceeded ~> RecordOf(MaxTicks)
    /\ [][tick' # tick => (tick' = tick + 1 /\ (tick >= 1 => RecordOf(tick)))]_vars
C20_Witness ==
    /\ RecordOf(MaxTicks)
    /\ ~dry_run
    /\ exit = "running"

====
